---- MODULE Spec2Model ----
(***************************************************************************)
(* Posture analysis pipeline of the posture monitoring application:        *)
(* PostureAnalyzer (src/analyzer.py) as a state machine.  One action per   *)
(* public method, and one for the settings the UI loads into the analyzer  *)
(* (src/ui.py change_user); time.time() readings and key points are        *)
(* inputs of the calls.                                                    *)
(*                                                                         *)
(* Specifications.                                                         *)
(*   Spec          the analyzer, its calls in any order, the clock moving  *)
(*                 by seconds                                              *)
(*   EvalSpec      _evaluate_component on one angle                        *)
(*   SmoothSpec    _get_smoothed_angle on one buffer                       *)
(*   AlertSpec     the analyzer with the clock moving by 7 and 8 seconds,  *)
(*                 with should_trigger_alert                               *)
(*   CapacitySpec  the analyzer with assignments to self.buffer_size       *)
(*   FeedbackSpec  FeedbackManager.trigger_alert (src/feedback.py)         *)
(*   HandlerSpec   start_monitoring, process_frame and stop_monitoring of  *)
(*                 src/main.py, one thread                                 *)
(*   UiSpec        start_monitoring, VideoThread.run, update_frame and     *)
(*                 stop_monitoring of src/ui.py, two threads on one        *)
(*                 analyzer                                                *)
(*   LiveSpec      the UI application under sustained bad posture, both    *)
(*                 threads weakly fair                                     *)
(* The history variables active_elapsed and pushed_since_reset are kept by *)
(* the actions of the analyzer alone; UiSpec, which takes analyze_posture  *)
(* in two steps, keeps pushed_since_reset only.                            *)
(*                                                                         *)
(* Numbers.  Time stamps and durations are whole seconds.  A raw angle is  *)
(* a whole number of degrees; a smoothed angle sum(buffer)/len(buffer) is  *)
(* kept as the exact fraction <<sum, len>> and compared by cross           *)
(* multiplication, so a mean such as 57.5 is not rounded.                  *)
(* An optional value is None (<<>>) or Some(v) (<<v>>).                    *)
(***************************************************************************)
EXTENDS Integers, Sequences, FiniteSets, TLC

VARIABLES
    neck_angle_threshold,           \* analyzer.py:9
    shoulder_alignment_threshold,   \* analyzer.py:10
    spine_curvature_threshold,      \* analyzer.py:11
    neck_buffer,                    \* analyzer.py:17  deque(maxlen=buffer_size)
    shoulder_buffer,                \* analyzer.py:18
    spine_buffer,                   \* analyzer.py:19
    bad_posture_start_time,         \* analyzer.py:22  None or a time stamp
    is_bad_posture,                 \* analyzer.py:23
    bad_posture_duration,           \* analyzer.py:24
    good_posture_seconds,           \* analyzer.py:26
    bad_posture_seconds,            \* analyzer.py:27
    last_update_time,               \* analyzer.py:28
    self_buffer_size,               \* analyzer.py:16  the attribute self.buffer_size
    last_alert_time,                \* feedback.py:9   FeedbackManager
    now,                            \* the latest reading of time.time()
    result,                         \* what the latest call returned
    call,                           \* history: the latest operation, its inputs and locals
    active_elapsed,                 \* history: sum of the intervals ending at an Active sample
    pushed_since_reset,             \* history: components given a present raw angle since
                                    \* construction or the last reset_stats
    opened_since_reset,             \* history: an episode was opened since construction or
                                    \* the last reset_bad_posture_timer or reset_stats
    delivered,                      \* history: the times at which an alert thread was started
    pc,                             \* where the per-sample handler of the caller stands
    analysis_result,                \* main.py:88 analysis_result / ui.py:361 data
    previous_check,                 \* history: what the handler's latest alert check found
    in_flight,                      \* ui.py:58   the analyze_posture call the video thread is in
    signals,                        \* ui.py:61   emitted results the UI thread has yet to handle
    monitoring                      \* main.py:23 is_running / ui.py:46 VideoThread.running

vars == <<neck_angle_threshold, shoulder_alignment_threshold, spine_curvature_threshold,
          neck_buffer, shoulder_buffer, spine_buffer,
          bad_posture_start_time, is_bad_posture, bad_posture_duration,
          good_posture_seconds, bad_posture_seconds, last_update_time,
          self_buffer_size, last_alert_time,
          now, result, call, active_elapsed, pushed_since_reset, opened_since_reset,
          delivered,
          pc, analysis_result, previous_check, in_flight, signals, monitoring>>

thresholds == <<neck_angle_threshold, shoulder_alignment_threshold, spine_curvature_threshold>>
buffers    == <<neck_buffer, shoulder_buffer, spine_buffer>>
episode    == <<bad_posture_start_time, is_bad_posture, bad_posture_duration>>
accumulators == <<good_posture_seconds, bad_posture_seconds>>
feedback   == <<last_alert_time, delivered>>
handlers   == <<pc, analysis_result, previous_check, in_flight, signals, monitoring>>

----------------------------------------------------------------------------
(* Bounds of the model *)

\* Capacity of each smoothing deque.  analyzer.py:16 sets 10; the model
\* scales the capacity down so that the buffers fill and evict.
buffer_size == 2

\* Latest clock reading explored.
MaxTime == 3

\* Most present samples pushed into one smoothing buffer between two clears.
MaxPushes == 4

\* Latest clock reading explored where the clock moves in long steps.
AlertHorizon == 17

\* What time.time() reads when the alert manager is constructed, and the
\* longest time explored after it.  A reading of the system clock is far
\* greater than any interval the program compares it with.
Epoch == 100
FeedbackSpan == 190

\* Longest time explored under sustained bad posture, the seconds of it in
\* which the posture is free, and the time within which a delivered alert
\* is followed by the next one.
LiveSpan == 140
LivePrefix == 8
RecurWithin == 96

\* Longest time explored after the start of a monitoring session.
HandlerSpan == 16

\* Most results emitted by the video thread and not yet handled by the UI
\* thread when the video thread takes its next frame.
MaxQueued == 1

----------------------------------------------------------------------------
(* Optional values and Python truthiness *)

None == <<>>
Some(v) == <<v>>

\* `if x:` for x None or a number: None and 0 are both false.
Truthy(x) == x # None /\ x[1] # 0

----------------------------------------------------------------------------
(* Inputs *)

\* Joint names looked up by analyze_posture, and one that it never reads.
JointNames == {"nose", "left_shoulder", "right_shoulder", "left_hip", "left_knee", "left_ear"}

\* The joints of the neck angle.
NeckJoints == {"nose", "left_shoulder", "left_hip"}

\* A key point dict with the joints S located.  None and the empty dict
\* are both the empty mapping (`not key_points`).
KeyPoints(S) == [name \in S |-> "landmark"]

\* dict.get(name): the landmark or None.
get(key_points, name) ==
    IF name \in DOMAIN key_points THEN Some(key_points[name]) ELSE None

\* Angles in degrees that the geometry of a sample can give per component.
NeckDegrees == {55, 65}
ShoulderDegrees == {170}
SpineDegrees == {165}

\* Settings profiles the UI can load into the analyzer (neck, shoulder, spine).
Profiles == {<<30, 10, 15>>, <<35, 15, 20>>}

----------------------------------------------------------------------------
(* Geometry *)

\* calculate_angle: None when a point is missing or the vectors are
\* degenerate, else the angle at point2.  `degrees` is what the arc cosine
\* gives for the three landmarks, None when mag1 * mag2 == 0.
calculate_angle(point1, point2, point3, degrees) ==
    IF point1 = None \/ point2 = None \/ point3 = None
    THEN None
    ELSE degrees

----------------------------------------------------------------------------
(* Smoothing buffers *)

\* deque(maxlen=buffer_size).append: the oldest entry leaves a full deque.
deque_append_keeps_oldest(buffer, value) ==
    IF Len(buffer) < buffer_size
    THEN Append(buffer, value)
    ELSE buffer
deque_append(buffer, value) ==
    IF Len(buffer) < buffer_size
    THEN Append(buffer, value)
    ELSE Append(Tail(buffer), value)

RECURSIVE sum(_)
sum(buffer) ==
    IF buffer = <<>> THEN 0 ELSE Head(buffer) + sum(Tail(buffer))

\* The buffer after _get_smoothed_angle(buffer, new_value).
buffer_after_clears_on_absent(buffer, new_value) ==
    IF new_value # None THEN deque_append(buffer, new_value[1]) ELSE <<>>
buffer_after(buffer, new_value) ==
    IF new_value # None THEN deque_append(buffer, new_value[1]) ELSE buffer

\* The value _get_smoothed_angle returns: None or the mean <<sum, len>>
\* of the buffer after the push.
get_smoothed_angle_zero_when_empty(buffer, new_value) ==
    LET b == buffer_after(buffer, new_value)
    IN  IF b = <<>> THEN <<0, 1>> ELSE <<sum(b), Len(b)>>
get_smoothed_angle_absent_when_raw_absent(buffer, new_value) ==
    LET b == buffer_after(buffer, new_value)
    IN  IF new_value = None THEN None ELSE <<sum(b), Len(b)>>
get_smoothed_angle(buffer, new_value) ==
    LET b == buffer_after(buffer, new_value)
    IN  IF b = <<>> THEN None ELSE <<sum(b), Len(b)>>

----------------------------------------------------------------------------
(* Component evaluation *)

\* The three components, in the order analyze_posture checks them.
Components == <<"neck", "shoulders", "spine">>

\* The fail_message analyze_posture passes for a component (lines 101, 111, 121).
fail_message_of(component) ==
    CASE component = "neck" -> "Keep head straight"
      [] component = "shoulders" -> "Level your shoulders"
      [] component = "spine" -> "Straighten your back"

\* lambda a: a > (90 - self.neck_angle_threshold)
neck_check_inclusive(a) == a[1] >= (90 - neck_angle_threshold) * a[2]
neck_check(a) == a[1] > (90 - neck_angle_threshold) * a[2]

\* lambda a: abs(180 - a) < self.shoulder_alignment_threshold
abs(x) == IF x < 0 THEN -x ELSE x
shoulder_check_default_threshold(a) == abs(180 * a[2] - a[1]) < 10 * a[2]
shoulder_check(a) == abs(180 * a[2] - a[1]) < shoulder_alignment_threshold * a[2]

\* lambda a: a > (180 - self.spine_curvature_threshold)
spine_check(a) == a[1] > (180 - spine_curvature_threshold) * a[2]

\* The threshold_check_func analyze_posture passes for a component.
threshold_check_func(component, a) ==
    CASE component = "neck" -> neck_check(a)
      [] component = "shoulders" -> shoulder_check(a)
      [] component = "spine" -> spine_check(a)

\* _evaluate_component: (is_valid, is_passing, feedback_message); the
\* message is None or Some(text).  is_passing is None for an absent angle.
evaluate_component(angle, component) ==
    IF angle = None
    THEN [valid |-> FALSE, passing |-> None, message |-> None]
    ELSE LET is_passing == threshold_check_func(component, angle)
         IN  [valid |-> TRUE,
              passing |-> Some(is_passing),
              message |-> IF is_passing THEN None ELSE Some(fail_message_of(component))]

\* `if valid: results.append(passing)`
results_append_absent_fails(results, verdict) ==
    IF verdict.valid THEN Append(results, verdict.passing[1]) ELSE Append(results, FALSE)
results_append(results, verdict) ==
    IF verdict.valid THEN Append(results, verdict.passing[1]) ELSE results

\* `if valid: ... if msg: feedback_messages.append(msg)`
messages_append_in_front(feedback_messages, verdict) ==
    IF verdict.valid /\ verdict.message # None
    THEN <<verdict.message[1]>> \o feedback_messages
    ELSE feedback_messages
messages_append(feedback_messages, verdict) ==
    IF verdict.valid /\ verdict.message # None
    THEN Append(feedback_messages, verdict.message[1])
    ELSE feedback_messages

\* all(results)
all_any(results) == \E i \in 1..Len(results) : results[i]
all(results) == \A i \in 1..Len(results) : results[i]

----------------------------------------------------------------------------
(* analyze_posture *)

\* The early return for `not key_points` (lines 72-78).
no_person_result ==
    [is_good_posture |-> FALSE,
     status |-> "No Person Detected",
     feedback_messages |-> <<>>]

\* The return for an empty verdict list (lines 132-137).
undetected_result ==
    [is_good_posture |-> FALSE,
     status |-> "Undetected",
     feedback_messages |-> <<"User not detected">>]

\* Step 5, "Update Stats" (lines 142-154): the new values of the five
\* fields it assigns.
update_stats_drops_bad_time(is_good_posture, current_time, time_delta) ==
    IF is_good_posture
    THEN [good_posture_seconds |-> good_posture_seconds + time_delta,
          bad_posture_seconds |-> bad_posture_seconds,
          bad_posture_duration |->
              IF Truthy(bad_posture_start_time)
              THEN current_time - bad_posture_start_time[1]
              ELSE bad_posture_duration,
          bad_posture_start_time |->
              IF Truthy(bad_posture_start_time) THEN None ELSE bad_posture_start_time,
          is_bad_posture |->
              IF Truthy(bad_posture_start_time) THEN FALSE ELSE is_bad_posture]
    ELSE [good_posture_seconds |-> good_posture_seconds,
          bad_posture_seconds |-> bad_posture_seconds,
          bad_posture_duration |->
              IF ~Truthy(bad_posture_start_time)
              THEN bad_posture_duration
              ELSE current_time - bad_posture_start_time[1],
          bad_posture_start_time |->
              IF ~Truthy(bad_posture_start_time)
              THEN Some(current_time)
              ELSE bad_posture_start_time,
          is_bad_posture |->
              IF ~Truthy(bad_posture_start_time) THEN TRUE ELSE is_bad_posture]
update_stats_keeps_last_on_close(is_good_posture, current_time, time_delta) ==
    IF is_good_posture
    THEN [good_posture_seconds |-> good_posture_seconds + time_delta,
          bad_posture_seconds |-> bad_posture_seconds,
          bad_posture_duration |->
              bad_posture_duration,
          bad_posture_start_time |->
              IF Truthy(bad_posture_start_time) THEN None ELSE bad_posture_start_time,
          is_bad_posture |->
              IF Truthy(bad_posture_start_time) THEN FALSE ELSE is_bad_posture]
    ELSE [good_posture_seconds |-> good_posture_seconds,
          bad_posture_seconds |-> bad_posture_seconds + time_delta,
          bad_posture_duration |->
              IF ~Truthy(bad_posture_start_time)
              THEN bad_posture_duration
              ELSE current_time - bad_posture_start_time[1],
          bad_posture_start_time |->
              IF ~Truthy(bad_posture_start_time)
              THEN Some(current_time)
              ELSE bad_posture_start_time,
          is_bad_posture |->
              IF ~Truthy(bad_posture_start_time) THEN TRUE ELSE is_bad_posture]
update_stats_zero_on_close(is_good_posture, current_time, time_delta) ==
    IF is_good_posture
    THEN [good_posture_seconds |-> good_posture_seconds + time_delta,
          bad_posture_seconds |-> bad_posture_seconds,
          bad_posture_duration |->
              IF Truthy(bad_posture_start_time)
              THEN 0
              ELSE bad_posture_duration,
          bad_posture_start_time |->
              IF Truthy(bad_posture_start_time) THEN None ELSE bad_posture_start_time,
          is_bad_posture |->
              IF Truthy(bad_posture_start_time) THEN FALSE ELSE is_bad_posture]
    ELSE [good_posture_seconds |-> good_posture_seconds,
          bad_posture_seconds |-> bad_posture_seconds + time_delta,
          bad_posture_duration |->
              IF ~Truthy(bad_posture_start_time)
              THEN bad_posture_duration
              ELSE current_time - bad_posture_start_time[1],
          bad_posture_start_time |->
              IF ~Truthy(bad_posture_start_time)
              THEN Some(current_time)
              ELSE bad_posture_start_time,
          is_bad_posture |->
              IF ~Truthy(bad_posture_start_time) THEN TRUE ELSE is_bad_posture]
update_stats(is_good_posture, current_time, time_delta) ==
    IF is_good_posture
    THEN [good_posture_seconds |-> good_posture_seconds + time_delta,
          bad_posture_seconds |-> bad_posture_seconds,
          bad_posture_duration |->
              IF Truthy(bad_posture_start_time)
              THEN current_time - bad_posture_start_time[1]
              ELSE bad_posture_duration,
          bad_posture_start_time |->
              IF Truthy(bad_posture_start_time) THEN None ELSE bad_posture_start_time,
          is_bad_posture |->
              IF Truthy(bad_posture_start_time) THEN FALSE ELSE is_bad_posture]
    ELSE [good_posture_seconds |-> good_posture_seconds,
          bad_posture_seconds |-> bad_posture_seconds + time_delta,
          bad_posture_duration |->
              IF ~Truthy(bad_posture_start_time)
              THEN bad_posture_duration
              ELSE current_time - bad_posture_start_time[1],
          bad_posture_start_time |->
              IF ~Truthy(bad_posture_start_time)
              THEN Some(current_time)
              ELSE bad_posture_start_time,
          is_bad_posture |->
              IF ~Truthy(bad_posture_start_time) THEN TRUE ELSE is_bad_posture]

\* The dict of lines 156-164.
active_result(neck_angle, shoulder_alignment, spine_curvature, is_good_posture, duration, feedback_messages) ==
    [neck_angle |-> neck_angle,
     shoulder_alignment |-> shoulder_alignment,
     spine_curvature |-> spine_curvature,
     is_good_posture |-> is_good_posture,
     status |-> "Active",
     bad_posture_duration |-> duration,
     feedback_messages |-> feedback_messages]

\* The branch for `not key_points` (lines 72-78) with time.time() reading
\* current_time.
NoPerson_counts_bad_time(current_time) ==
    /\ last_update_time' = current_time
    /\ result' = no_person_result
    /\ bad_posture_seconds' = bad_posture_seconds + (current_time - last_update_time)
    /\ UNCHANGED <<buffers, episode, good_posture_seconds, pushed_since_reset, opened_since_reset>>
NoPerson(current_time) ==
    /\ last_update_time' = current_time
    /\ result' = no_person_result
    /\ UNCHANGED <<buffers, episode, accumulators, pushed_since_reset, opened_since_reset>>

\* analyze_posture(key_points) with time.time() reading current_time; the
\* deg_ arguments are the angles the landmarks of the sample subtend.
AnalyzePosture(key_points, current_time, deg_neck, deg_shoulder, deg_spine) ==
    /\ now' = current_time
    /\ UNCHANGED <<feedback, thresholds, self_buffer_size>>
    /\ IF DOMAIN key_points = {}
       THEN /\ NoPerson(current_time)
            /\ call' = [op |-> "analyze_posture", subject |-> FALSE,
                        interval |-> current_time - last_update_time]
       ELSE \* the locals of the method, each bound to its value once
            \E raw_neck \in {calculate_angle(get(key_points, "nose"),
                                             get(key_points, "left_shoulder"),
                                             get(key_points, "left_hip"), deg_neck)},
               raw_shoulder \in {calculate_angle(get(key_points, "left_shoulder"),
                                                 get(key_points, "right_shoulder"),
                                                 get(key_points, "nose"), deg_shoulder)},
               raw_spine \in {calculate_angle(get(key_points, "left_shoulder"),
                                              get(key_points, "left_hip"),
                                              get(key_points, "left_knee"), deg_spine)} :
            \E neck_angle \in {get_smoothed_angle(neck_buffer, raw_neck)},
               shoulder_alignment \in {get_smoothed_angle(shoulder_buffer, raw_shoulder)},
               spine_curvature \in {get_smoothed_angle(spine_buffer, raw_spine)} :
            \E neck \in {evaluate_component(neck_angle, "neck")},
               shoulders \in {evaluate_component(shoulder_alignment, "shoulders")},
               spine \in {evaluate_component(spine_curvature, "spine")} :
            \E results \in {results_append(results_append(results_append(
                                 <<>>, neck), shoulders), spine)},
               feedback_messages \in {messages_append(messages_append(messages_append(
                                 <<>>, neck), shoulders), spine)},
               time_delta \in {current_time - last_update_time} :
            \E is_good_posture \in {all(results)} :
            \E stats \in {update_stats(is_good_posture, current_time, time_delta)} :
                /\ neck_buffer' = buffer_after(neck_buffer, raw_neck)
                /\ shoulder_buffer' = buffer_after(shoulder_buffer, raw_shoulder)
                /\ spine_buffer' = buffer_after(spine_buffer, raw_spine)
                /\ last_update_time' = current_time
                /\ pushed_since_reset' = pushed_since_reset
                       \cup (IF raw_neck # None THEN {"neck"} ELSE {})
                       \cup (IF raw_shoulder # None THEN {"shoulders"} ELSE {})
                       \cup (IF raw_spine # None THEN {"spine"} ELSE {})
                /\ call' = [op |-> "analyze_posture", subject |-> TRUE,
                            interval |-> time_delta,
                            episode_open |-> Truthy(bad_posture_start_time),
                            after_change |-> call.op = "change_user",
                            raw_neck |-> raw_neck, raw_shoulder |-> raw_shoulder,
                            raw_spine |-> raw_spine,
                            neck_angle |-> neck_angle,
                            shoulder_alignment |-> shoulder_alignment,
                            spine_curvature |-> spine_curvature,
                            neck |-> neck, shoulders |-> shoulders, spine |-> spine,
                            results |-> results]
                /\ IF results = <<>>
                   THEN /\ result' = undetected_result
                        /\ UNCHANGED <<episode, accumulators>>
                   ELSE /\ good_posture_seconds' = stats.good_posture_seconds
                        /\ bad_posture_seconds' = stats.bad_posture_seconds
                        /\ bad_posture_duration' = stats.bad_posture_duration
                        /\ bad_posture_start_time' = stats.bad_posture_start_time
                        /\ is_bad_posture' = stats.is_bad_posture
                        /\ result' = active_result(neck_angle, shoulder_alignment,
                                         spine_curvature, is_good_posture,
                                         stats.bad_posture_duration, feedback_messages)
    \* history: the interval since the previous call (analyze_posture or
    \* reset_stats) counts when this call returns status Active
    /\ active_elapsed' = IF result'.status = "Active"
                         THEN active_elapsed + (current_time - last_update_time)
                         ELSE active_elapsed
    \* history: an episode is open after the call
    /\ opened_since_reset' = (opened_since_reset \/ Truthy(bad_posture_start_time'))

----------------------------------------------------------------------------
(* The other operations *)

\* What a call without a return statement leaves in `result`.
no_result == [status |-> "None"]

\* reset_bad_posture_timer (lines 170-173).  history: call.before tells
\* what the call found.
ResetBadPostureTimer_clears_bad_seconds ==
    /\ bad_posture_start_time' = None
    /\ bad_posture_duration' = 0
    /\ is_bad_posture' = FALSE
    /\ bad_posture_seconds' = 0
    /\ call' = [op |-> "reset_bad_posture_timer",
                before |-> [episode_open |-> Truthy(bad_posture_start_time),
                            duration |-> bad_posture_duration]]
    /\ result' = no_result
    /\ opened_since_reset' = FALSE
    /\ UNCHANGED <<feedback, thresholds, buffers, good_posture_seconds, last_update_time, now,
                   self_buffer_size, active_elapsed, pushed_since_reset>>
ResetBadPostureTimer_keeps_flag ==
    /\ bad_posture_start_time' = None
    /\ bad_posture_duration' = 0
    /\ UNCHANGED is_bad_posture
    /\ call' = [op |-> "reset_bad_posture_timer",
                before |-> [episode_open |-> Truthy(bad_posture_start_time),
                            duration |-> bad_posture_duration]]
    /\ result' = no_result
    /\ opened_since_reset' = FALSE
    /\ UNCHANGED <<feedback, thresholds, buffers, accumulators, last_update_time, now,
                   self_buffer_size, active_elapsed, pushed_since_reset>>
ResetBadPostureTimer ==
    /\ bad_posture_start_time' = None
    /\ bad_posture_duration' = 0
    /\ is_bad_posture' = FALSE
    /\ call' = [op |-> "reset_bad_posture_timer",
                before |-> [episode_open |-> Truthy(bad_posture_start_time),
                            duration |-> bad_posture_duration]]
    /\ result' = no_result
    /\ opened_since_reset' = FALSE
    /\ UNCHANGED <<feedback, thresholds, buffers, accumulators, last_update_time, now,
                   self_buffer_size, active_elapsed, pushed_since_reset>>

\* reset_stats (lines 183-193) with time.time() reading current_time.
\* history: call.before tells what the call found.
ResetStats_keeps_buffers(current_time) ==
    /\ good_posture_seconds' = 0
    /\ bad_posture_seconds' = 0
    /\ bad_posture_duration' = 0
    /\ bad_posture_start_time' = None
    /\ is_bad_posture' = FALSE
    /\ last_update_time' = current_time
    /\ now' = current_time
    /\ active_elapsed' = 0
    /\ pushed_since_reset' = {}
    /\ opened_since_reset' = FALSE
    /\ call' = [op |-> "reset_stats",
                before |-> [episode_open |-> Truthy(bad_posture_start_time),
                            counted |-> good_posture_seconds + bad_posture_seconds > 0,
                            buffered |-> pushed_since_reset]]
    /\ result' = no_result
    /\ UNCHANGED <<feedback, thresholds, self_buffer_size, buffers>>
ResetStats(current_time) ==
    /\ good_posture_seconds' = 0
    /\ bad_posture_seconds' = 0
    /\ bad_posture_duration' = 0
    /\ bad_posture_start_time' = None
    /\ is_bad_posture' = FALSE
    /\ last_update_time' = current_time
    /\ now' = current_time
    /\ neck_buffer' = <<>>
    /\ shoulder_buffer' = <<>>
    /\ spine_buffer' = <<>>
    /\ active_elapsed' = 0
    /\ pushed_since_reset' = {}
    /\ opened_since_reset' = FALSE
    /\ call' = [op |-> "reset_stats",
                before |-> [episode_open |-> Truthy(bad_posture_start_time),
                            counted |-> good_posture_seconds + bad_posture_seconds > 0,
                            buffered |-> pushed_since_reset]]
    /\ result' = no_result
    /\ UNCHANGED <<feedback, thresholds, self_buffer_size>>

\* config.py:11
BAD_POSTURE_THRESHOLD_SECONDS == 15

\* should_trigger_alert (lines 167-168): the value returned.
should_trigger_alert_strict == bad_posture_duration > BAD_POSTURE_THRESHOLD_SECONDS
should_trigger_alert == bad_posture_duration >= BAD_POSTURE_THRESHOLD_SECONDS

\* One call of should_trigger_alert.
ShouldTriggerAlert ==
    /\ result' = [status |-> "Boolean", value |-> should_trigger_alert]
    /\ call' = [op |-> "should_trigger_alert"]
    /\ UNCHANGED <<feedback, thresholds, buffers, episode, accumulators, last_update_time, now,
                   self_buffer_size, active_elapsed, pushed_since_reset, opened_since_reset>>

\* change_user, "Apply immediately" (ui.py:472-475): the stored settings
\* of the selected user replace the three thresholds.
ChangeUser(settings) ==
    /\ neck_angle_threshold' = settings[1]
    /\ shoulder_alignment_threshold' = settings[2]
    /\ spine_curvature_threshold' = settings[3]
    /\ call' = [op |-> "change_user"]
    /\ result' = no_result
    /\ UNCHANGED <<feedback, buffers, episode, accumulators, last_update_time, now,
                   self_buffer_size, active_elapsed, pushed_since_reset, opened_since_reset>>

----------------------------------------------------------------------------
(* Specification *)

\* The fields PostureAnalyzer.__init__ sets (lines 13-28), with the three
\* thresholds given; the clock starts at a positive reading, as
\* time.time() does.
ConstructedAt(current_time, neck, shoulder, spine) ==
    /\ neck_angle_threshold = neck
    /\ shoulder_alignment_threshold = shoulder
    /\ spine_curvature_threshold = spine
    /\ neck_buffer = <<>>
    /\ shoulder_buffer = <<>>
    /\ spine_buffer = <<>>
    /\ bad_posture_start_time = None
    /\ is_bad_posture = FALSE
    /\ bad_posture_duration = 0
    /\ good_posture_seconds = 0
    /\ bad_posture_seconds = 0
    /\ last_update_time = current_time
    /\ now = current_time
    /\ result = no_result
    /\ self_buffer_size = buffer_size
    /\ call = [op |-> "init"]
    /\ active_elapsed = 0
    /\ pushed_since_reset = {}
    /\ opened_since_reset = FALSE

Constructed(neck, shoulder, spine) == ConstructedAt(1, neck, shoulder, spine)

\* FeedbackManager.__init__ (feedback.py:8-13).
FeedbackManagerConstructed ==
    /\ last_alert_time = 0
    /\ delivered = <<>>

\* No sample is being handled, none is in flight and none is queued.
HandlersIdle ==
    /\ pc = "idle"
    /\ analysis_result = None
    /\ previous_check = None
    /\ in_flight = None
    /\ signals = <<>>
    /\ monitoring = FALSE

\* PostureAnalyzer.__init__ with its default thresholds (lines 9-11).
Init == Constructed(30, 10, 15) /\ FeedbackManagerConstructed /\ HandlersIdle

\* Clock readings a call made now can get: time does not run backwards,
\* and two calls can read the same second.
Readings == {t \in {now, now + 1} : t <= MaxTime}

\* The samples fed to analyze_posture: the key points and, per component,
\* the angle its three landmarks subtend (None: coincident landmarks).
Samples ==
    \* no subject
    {<<KeyPoints({}), None, None, None>>}
    \* a subject with none of the five joints located
    \cup {<<KeyPoints({"left_ear"}), None, None, None>>}
    \* every joint located at one and the same point
    \cup {<<KeyPoints(JointNames), None, None, None>>}
    \* only the joints of the neck angle located
    \cup {<<KeyPoints(NeckJoints), Some(n), None, None>> : n \in NeckDegrees}
    \* every joint located
    \cup {<<KeyPoints(JointNames), Some(n), Some(s), Some(c)>> :
              n \in NeckDegrees, s \in ShoulderDegrees, c \in SpineDegrees}

Next ==
    \/ \E sample \in Samples, current_time \in Readings :
         /\ AnalyzePosture(sample[1], current_time, sample[2], sample[3], sample[4])
         /\ UNCHANGED handlers
    \/ \E current_time \in Readings : ResetStats(current_time) /\ UNCHANGED handlers
    \/ ResetBadPostureTimer /\ UNCHANGED handlers
    \/ \E settings \in Profiles : ChangeUser(settings) /\ UNCHANGED handlers

Spec == Init /\ [][Next]_vars

----------------------------------------------------------------------------
(* The component evaluator on its own: _evaluate_component applied to one  *)
(* angle under one profile of thresholds.                                  *)

\* Threshold profiles: the least, the default and the greatest value of the
\* three sliders (ui.py:287-289).
EvalProfiles == {<<10, 5, 5>>, <<30, 10, 15>>, <<60, 30, 45>>}

\* Smoothed angles handed to the evaluator: every 5 degrees of 0..180.
EvalAngles == {<<5 * k, 1>> : k \in 0..36}

\* One call _evaluate_component(angle, <the component's lambda>, <its message>).
EvaluateComponent(component, angle) ==
    /\ call' = [op |-> "evaluate_component", component |-> component,
                angle |-> angle, verdict |-> evaluate_component(angle, component)]
    /\ UNCHANGED <<feedback, thresholds, buffers, episode, accumulators, last_update_time,
                   self_buffer_size, now, result, active_elapsed, pushed_since_reset, opened_since_reset>>

EvalInit == /\ \E settings \in EvalProfiles :
                   Constructed(settings[1], settings[2], settings[3])
            /\ FeedbackManagerConstructed
            /\ HandlersIdle

EvalNext == \E i \in 1..3, angle \in EvalAngles \cup {None} :
                EvaluateComponent(Components[i], angle) /\ UNCHANGED handlers

EvalSpec == EvalInit /\ [][EvalNext]_vars

----------------------------------------------------------------------------
(* The analyzer over a longer time: the clock moves in steps of seven and  *)
(* eight seconds, so that an episode lasts 14, 15 or 16 seconds.           *)

AlertReadings == {t \in {now, now + 7, now + 8} : t <= AlertHorizon}

\* No subject, or a subject whose neck angle alone is seen.
AlertSamples ==
    {<<KeyPoints({}), None, None, None>>}
    \cup {<<KeyPoints(NeckJoints), Some(n), None, None>> : n \in NeckDegrees}

AlertNext ==
    \/ \E sample \in AlertSamples, current_time \in AlertReadings :
         /\ AnalyzePosture(sample[1], current_time, sample[2], sample[3], sample[4])
         /\ UNCHANGED handlers
    \/ ShouldTriggerAlert /\ UNCHANGED handlers
    \/ ResetBadPostureTimer /\ UNCHANGED handlers
    \/ \E current_time \in AlertReadings : ResetStats(current_time) /\ UNCHANGED handlers

AlertSpec == Init /\ [][AlertNext]_vars

----------------------------------------------------------------------------
(* The capacity attribute: self.buffer_size is read once, by __init__, to  *)
(* construct the three deques (analyzer.py:16-19).  Assigning the          *)
(* attribute afterwards is the only way to change it during a session; no  *)
(* settings store holds a capacity.                                        *)

\* analyzer.buffer_size = size
SetBufferSize(size) ==
    /\ self_buffer_size' = size
    /\ call' = [op |-> "set_buffer_size"]
    /\ result' = no_result
    /\ UNCHANGED <<feedback, thresholds, buffers, episode, accumulators,
                   last_update_time, now, active_elapsed, pushed_since_reset, opened_since_reset>>

CapacityNext ==
    \/ \E size \in 1..(buffer_size + 1) : SetBufferSize(size) /\ UNCHANGED handlers
    \/ \E sample \in AlertSamples, current_time \in Readings :
         /\ AnalyzePosture(sample[1], current_time, sample[2], sample[3], sample[4])
         /\ UNCHANGED handlers

CapacitySpec == Init /\ [][CapacityNext]_vars

----------------------------------------------------------------------------
(* The alert manager on its own: FeedbackManager.trigger_alert called at   *)
(* times 0, 29 or 31 seconds apart.                                        *)

\* config.py:12
ALERT_REPEAT_INTERVAL_SECONDS == 60

\* self.alert_repeat_interval (feedback.py:13); set_settings, which could
\* change it, is never called.
alert_repeat_interval == ALERT_REPEAT_INTERVAL_SECONDS

\* The rate limit of trigger_alert (feedback.py:27): TRUE when the call
\* returns without an alert.
rate_limited_by_alert_threshold(current_time) ==
    current_time - last_alert_time < BAD_POSTURE_THRESHOLD_SECONDS
rate_limited(current_time) ==
    current_time - last_alert_time < alert_repeat_interval

\* " & ".join(messages)
RECURSIVE join(_)
join(messages) ==
    IF Len(messages) = 1
    THEN messages[1]
    ELSE messages[1] \o " & " \o join(Tail(messages))

\* final_message of trigger_alert (feedback.py:32-38) for a list of
\* messages: the list joined by " & ", or the default for an empty list.
final_message(messages) ==
    IF messages # <<>> THEN join(messages) ELSE "Please correct your posture"

\* trigger_alert(messages) with time.time() reading current_time.
TriggerAlert_restarts_interval(messages, current_time) ==
    /\ now' = current_time
    /\ IF rate_limited(current_time)
       THEN /\ last_alert_time' = current_time
            /\ UNCHANGED delivered
            /\ call' = [op |-> "trigger_alert", started |-> FALSE,
                        since_last |-> current_time - last_alert_time]
       ELSE /\ last_alert_time' = current_time
            /\ delivered' = Append(delivered, current_time)
            /\ call' = [op |-> "trigger_alert", started |-> TRUE,
                        since_last |-> current_time - last_alert_time,
                        final_message |-> final_message(messages)]
    /\ result' = no_result
    /\ UNCHANGED <<thresholds, buffers, episode, accumulators, last_update_time,
                   self_buffer_size, active_elapsed, pushed_since_reset, opened_since_reset>>
TriggerAlert(messages, current_time) ==
    /\ now' = current_time
    /\ IF rate_limited(current_time)
       THEN /\ UNCHANGED feedback
            /\ call' = [op |-> "trigger_alert", started |-> FALSE,
                        since_last |-> current_time - last_alert_time]
       ELSE /\ last_alert_time' = current_time
            /\ delivered' = Append(delivered, current_time)
            /\ call' = [op |-> "trigger_alert", started |-> TRUE,
                        since_last |-> current_time - last_alert_time,
                        final_message |-> final_message(messages)]
    /\ result' = no_result
    /\ UNCHANGED <<thresholds, buffers, episode, accumulators, last_update_time,
                   self_buffer_size, active_elapsed, pushed_since_reset, opened_since_reset>>

FeedbackReadings == {t \in {now, now + 29, now + 31} : t <= Epoch + FeedbackSpan}

FeedbackInit ==
    ConstructedAt(Epoch, 30, 10, 15) /\ FeedbackManagerConstructed /\ HandlersIdle

FeedbackNext ==
    \E messages \in {<<>>, <<"Keep head straight">>,
                      <<"Keep head straight", "Straighten your back">>},
       current_time \in FeedbackReadings :
        TriggerAlert(messages, current_time) /\ UNCHANGED handlers

FeedbackSpec == FeedbackInit /\ [][FeedbackNext]_vars

----------------------------------------------------------------------------
(* The per-sample handler of src/main.py: PostureMonitoringSystem          *)
(* .process_frame, run by a QTimer on the one thread of the application.   *)
(* Each call it makes on the analyzer and on the alert manager is a step.  *)

HandlerReadings == {t \in {now, now + 7, now + 8} : t <= Epoch + HandlerSpan}

\* Samples the camera gives a handler: nobody in the frame, a subject whose
\* landmarks give no angle (status Undetected), a subject with a neck angle.
HandlerSamples ==
    AlertSamples \cup {<<KeyPoints({"nose"}), None, None, None>>}

\* main.py:50-64 start_monitoring(user_id) with the camera initialised:
\* is_running is set, the analyzer reset, the timer started.  A session is
\* started when none runs.
StartMonitoring(current_time) ==
    /\ pc = "idle"
    /\ ~monitoring
    /\ ResetStats(current_time)
    /\ monitoring' = TRUE
    /\ UNCHANGED <<pc, analysis_result, previous_check, in_flight, signals>>

\* main.py:66-70 stop_monitoring: is_running is cleared, the timer stopped
\* and the camera released.
StopMonitoring ==
    /\ pc = "idle"
    /\ monitoring
    /\ monitoring' = FALSE
    /\ call' = [op |-> "stop_monitoring"]
    /\ UNCHANGED <<feedback, thresholds, buffers, episode, accumulators,
                   last_update_time, self_buffer_size, now, result, active_elapsed,
                   pushed_since_reset, opened_since_reset, pc, analysis_result,
                   previous_check, in_flight, signals>>

\* Lines 84-93: detect, analyze_posture and the reading of the four keys of
\* the result.  analysis_result['bad_posture_duration'] raises KeyError for
\* a result without that key, which takes the handler to its except clause.
ProcessFrame_Analyze(sample, current_time) ==
    /\ pc = "idle"
    /\ monitoring
    /\ AnalyzePosture(sample[1], current_time, sample[2], sample[3], sample[4])
    /\ analysis_result' = result'
    /\ pc' = IF "bad_posture_duration" \in DOMAIN result'
             THEN IF result'.status = "Active" THEN "should_trigger" ELSE "emit"
             ELSE "except"
    /\ UNCHANGED <<previous_check, in_flight, signals, monitoring>>

\* Lines 96-98: `if status == 'Active': if self.analyzer.should_trigger_alert()`.
ProcessFrame_ShouldTrigger ==
    /\ pc = "should_trigger"
    /\ ShouldTriggerAlert
    /\ previous_check' = [positive |-> result'.value, reset |-> FALSE]
    /\ pc' = IF result'.value THEN "trigger_alert" ELSE "emit"
    /\ UNCHANGED <<analysis_result, in_flight, signals, monitoring>>

\* Line 100: self.feedback_manager.trigger_alert(feedback_msgs).
ProcessFrame_TriggerAlert(current_time) ==
    /\ pc = "trigger_alert"
    /\ TriggerAlert(analysis_result.feedback_messages, current_time)
    /\ pc' = "reset"
    /\ UNCHANGED <<analysis_result, previous_check, in_flight, signals, monitoring>>

\* Line 103: self.analyzer.reset_bad_posture_timer().
ProcessFrame_Reset ==
    /\ pc = "reset"
    /\ ResetBadPostureTimer
    /\ previous_check' = [previous_check EXCEPT !.reset = TRUE]
    /\ pc' = "emit"
    /\ UNCHANGED <<analysis_result, in_flight, signals, monitoring>>

\* "; ".join(msgs) if msgs else "" (database.py:181-182).
RECURSIVE feedback_text(_)
feedback_text(msgs) ==
    IF msgs = <<>> THEN ""
    ELSE IF Len(msgs) = 1 THEN msgs[1]
    ELSE msgs[1] \o "; " \o feedback_text(Tail(msgs))

\* The row that log_posture_event(session_id, timestamp, posture_data,
\* is_good_posture) inserts (database.py:171-192), without its session id
\* and time stamp.
log_posture_event(posture_data, is_good_posture) ==
    [neck_angle |-> posture_data.neck_angle,
     shoulder_alignment |-> posture_data.shoulder_alignment,
     spine_curvature |-> posture_data.spine_curvature,
     is_good_posture |-> is_good_posture,
     feedback |-> feedback_text(posture_data.feedback_messages)]

\* The fourth argument of the call of main.py:125-130.
logged_flag(is_good) == ~is_good

\* Lines 105-130: the UI text, the two emits and the throttled logging with
\* time.time() reading current_time; the handler returns.  history:
\* call.logged is the row inserted, if one was.
ProcessFrame_Emit(current_time) ==
    /\ pc = "emit"
    /\ pc' = "idle"
    /\ call' = [op |-> "process_frame_emit", status |-> analysis_result.status,
                logged |-> IF analysis_result.status = "Active" /\ current_time % 10 = 0
                           THEN Some(log_posture_event(analysis_result,
                                         logged_flag(analysis_result.is_good_posture)))
                           ELSE None]
    /\ UNCHANGED <<feedback, thresholds, buffers, episode, accumulators,
                   last_update_time, self_buffer_size, now, result, active_elapsed,
                   pushed_since_reset, opened_since_reset, analysis_result, previous_check, in_flight,
                   signals, monitoring>>

\* Lines 132-135: the except clause; the handler returns.
ProcessFrame_Except ==
    /\ pc = "except"
    /\ pc' = "idle"
    /\ call' = [op |-> "process_frame_except", status |-> analysis_result.status]
    /\ UNCHANGED <<feedback, thresholds, buffers, episode, accumulators,
                   last_update_time, self_buffer_size, now, result, active_elapsed,
                   pushed_since_reset, opened_since_reset, analysis_result, previous_check, in_flight,
                   signals, monitoring>>

HandlerInit ==
    ConstructedAt(Epoch, 30, 10, 15) /\ FeedbackManagerConstructed /\ HandlersIdle

HandlerNext ==
    \/ \E current_time \in HandlerReadings : StartMonitoring(current_time)
    \/ StopMonitoring
    \/ \E sample \in HandlerSamples, current_time \in HandlerReadings :
         ProcessFrame_Analyze(sample, current_time)
    \/ ProcessFrame_ShouldTrigger
    \/ \E current_time \in {now} : ProcessFrame_TriggerAlert(current_time)
    \/ ProcessFrame_Reset
    \/ \E current_time \in {now} : ProcessFrame_Emit(current_time)
    \/ ProcessFrame_Except

HandlerSpec == HandlerInit /\ [][HandlerNext]_vars

----------------------------------------------------------------------------
(* The UI application of src/ui.py.  VideoThread.run calls analyze_posture *)
(* on its own thread and emits each result; the UI thread handles the      *)
(* emitted results one by one in update_frame, which calls                 *)
(* should_trigger_alert and reset_bad_posture_timer on the same analyzer.  *)
(* Nothing orders the two threads, so the steps of update_frame fall       *)
(* anywhere between the steps of an analyze_posture call.  The call is     *)
(* taken in two steps: up to the evaluation of the right-hand sides of     *)
(* "Update Stats" (lines 142-154), and from the stores of their values to  *)
(* the return.                                                             *)

\* ui.py:310-327 toggle_monitoring and start_monitoring to the start of the
\* video thread: from here on the thread calls analyze_posture.
Ui_StartMonitoring_StartThread ==
    /\ pc = "idle"
    /\ ~monitoring
    /\ monitoring' = TRUE
    /\ pc' = "reset_stats"
    /\ call' = [op |-> "start_monitoring"]
    /\ UNCHANGED <<feedback, thresholds, buffers, episode, accumulators,
                   last_update_time, self_buffer_size, now, result, active_elapsed,
                   pushed_since_reset, opened_since_reset, analysis_result,
                   previous_check, in_flight, signals>>

\* ui.py:329-337 the rest of start_monitoring, on the UI thread with the
\* video thread running: self.posture_analyzer.reset_stats().
Ui_StartMonitoring_ResetStats(current_time) ==
    /\ pc = "reset_stats"
    /\ ResetStats(current_time)
    /\ pc' = "idle"
    /\ UNCHANGED <<analysis_result, previous_check, in_flight, signals, monitoring>>

\* ui.py:342-359 stop_monitoring: video_thread.stop() clears `running` and
\* waits for run() to return, so no call is in flight when it goes on; the
\* analyzer is read (get_posture_stats) and left as it is.
Ui_StopMonitoring ==
    /\ pc = "idle"
    /\ monitoring
    /\ in_flight = None
    /\ monitoring' = FALSE
    /\ call' = [op |-> "stop_monitoring"]
    /\ UNCHANGED <<feedback, thresholds, buffers, episode, accumulators,
                   last_update_time, self_buffer_size, now, result, active_elapsed,
                   pushed_since_reset, opened_since_reset, pc, analysis_result,
                   previous_check, in_flight, signals>>

\* The episode fields that the branch of "Update Stats" taken assigns.
assigned_by_update_stats(is_good_posture) ==
    IF is_good_posture
    THEN IF Truthy(bad_posture_start_time)
         THEN {"bad_posture_duration", "bad_posture_start_time", "is_bad_posture"}
         ELSE {}
    ELSE IF ~Truthy(bad_posture_start_time)
         THEN {"bad_posture_start_time", "is_bad_posture"}
         ELSE {"bad_posture_duration"}

\* ui.py:54-58 and analyze_posture to the point where the values that
\* "Update Stats" will store have been computed.  A call that returns
\* before "Update Stats" is complete in this step and its result emitted.
VideoThread_Analyze_Begin(key_points, current_time, deg_neck, deg_shoulder, deg_spine) ==
    /\ monitoring
    /\ in_flight = None
    /\ Len(signals) < MaxQueued
    /\ now' = current_time
    /\ last_update_time' = current_time
    /\ UNCHANGED <<feedback, thresholds, self_buffer_size, episode, result,
                   active_elapsed, opened_since_reset, pc, analysis_result, previous_check,
                   monitoring>>
    /\ IF DOMAIN key_points = {}
       THEN /\ signals' = Append(signals, no_person_result)
            /\ call' = [op |-> "video_thread_analyze", status |-> "No Person Detected"]
            /\ UNCHANGED <<buffers, accumulators, pushed_since_reset, in_flight>>
       ELSE \E raw_neck \in {calculate_angle(get(key_points, "nose"),
                                             get(key_points, "left_shoulder"),
                                             get(key_points, "left_hip"), deg_neck)},
               raw_shoulder \in {calculate_angle(get(key_points, "left_shoulder"),
                                                 get(key_points, "right_shoulder"),
                                                 get(key_points, "nose"), deg_shoulder)},
               raw_spine \in {calculate_angle(get(key_points, "left_shoulder"),
                                              get(key_points, "left_hip"),
                                              get(key_points, "left_knee"), deg_spine)} :
            \E neck_angle \in {get_smoothed_angle(neck_buffer, raw_neck)},
               shoulder_alignment \in {get_smoothed_angle(shoulder_buffer, raw_shoulder)},
               spine_curvature \in {get_smoothed_angle(spine_buffer, raw_spine)} :
            \E neck \in {evaluate_component(neck_angle, "neck")},
               shoulders \in {evaluate_component(shoulder_alignment, "shoulders")},
               spine \in {evaluate_component(spine_curvature, "spine")} :
            \E results \in {results_append(results_append(results_append(
                                 <<>>, neck), shoulders), spine)},
               feedback_messages \in {messages_append(messages_append(messages_append(
                                 <<>>, neck), shoulders), spine)},
               time_delta \in {current_time - last_update_time} :
            \E is_good_posture \in {all(results)} :
            \E stats \in {update_stats(is_good_posture, current_time, time_delta)} :
                /\ neck_buffer' = buffer_after(neck_buffer, raw_neck)
                /\ shoulder_buffer' = buffer_after(shoulder_buffer, raw_shoulder)
                /\ spine_buffer' = buffer_after(spine_buffer, raw_spine)
                /\ pushed_since_reset' = pushed_since_reset
                       \cup (IF raw_neck # None THEN {"neck"} ELSE {})
                       \cup (IF raw_shoulder # None THEN {"shoulders"} ELSE {})
                       \cup (IF raw_spine # None THEN {"spine"} ELSE {})
                /\ IF results = <<>>
                   THEN /\ signals' = Append(signals, undetected_result)
                        /\ call' = [op |-> "video_thread_analyze", status |-> "Undetected"]
                        /\ UNCHANGED <<accumulators, in_flight>>
                   ELSE /\ good_posture_seconds' = stats.good_posture_seconds
                        /\ bad_posture_seconds' = stats.bad_posture_seconds
                        /\ in_flight' =
                              [assigned |-> assigned_by_update_stats(is_good_posture),
                               bad_posture_duration |-> stats.bad_posture_duration,
                               bad_posture_start_time |-> stats.bad_posture_start_time,
                               is_bad_posture |-> stats.is_bad_posture,
                               neck_angle |-> neck_angle,
                               shoulder_alignment |-> shoulder_alignment,
                               spine_curvature |-> spine_curvature,
                               is_good_posture |-> is_good_posture,
                               feedback_messages |-> feedback_messages]
                        /\ call' = [op |-> "video_thread_analyze", status |-> "in flight"]
                        /\ UNCHANGED signals

\* The stores of "Update Stats", the return of lines 156-164, which reads
\* self.bad_posture_duration again, and the emit of ui.py:61.
VideoThread_Analyze_End ==
    /\ in_flight # None
    /\ bad_posture_duration' =
          IF "bad_posture_duration" \in in_flight.assigned
          THEN in_flight.bad_posture_duration ELSE bad_posture_duration
    /\ bad_posture_start_time' =
          IF "bad_posture_start_time" \in in_flight.assigned
          THEN in_flight.bad_posture_start_time ELSE bad_posture_start_time
    /\ is_bad_posture' =
          IF "is_bad_posture" \in in_flight.assigned
          THEN in_flight.is_bad_posture ELSE is_bad_posture
    /\ signals' = Append(signals,
          active_result(in_flight.neck_angle, in_flight.shoulder_alignment,
                        in_flight.spine_curvature, in_flight.is_good_posture,
                        bad_posture_duration', in_flight.feedback_messages))
    /\ in_flight' = None
    /\ opened_since_reset' = (opened_since_reset \/ Truthy(bad_posture_start_time'))
    /\ call' = [op |-> "video_thread_analyze", status |-> "Active"]
    /\ UNCHANGED <<feedback, thresholds, self_buffer_size, buffers, accumulators,
                   last_update_time, now, result, active_elapsed, pushed_since_reset,
                   pc, analysis_result, previous_check, monitoring>>

\* update_frame(frame, data) for a result whose status is not 'Active'
\* (ui.py:361-388): no call on the analyzer.
UpdateFrame_NotActive_resets ==
    /\ pc = "idle"
    /\ signals # <<>>
    /\ Head(signals).status # "Active"
    /\ analysis_result' = Head(signals)
    /\ signals' = Tail(signals)
    /\ ResetBadPostureTimer
    /\ UNCHANGED <<pc, previous_check, in_flight, monitoring>>
UpdateFrame_NotActive ==
    /\ pc = "idle"
    /\ signals # <<>>
    /\ Head(signals).status # "Active"
    /\ analysis_result' = Head(signals)
    /\ signals' = Tail(signals)
    /\ call' = [op |-> "update_frame", status |-> Head(signals).status]
    /\ UNCHANGED <<feedback, thresholds, self_buffer_size, buffers, episode,
                   accumulators, last_update_time, now, result, active_elapsed,
                   pushed_since_reset, opened_since_reset, pc, previous_check, in_flight,
                   monitoring>>

\* update_frame(frame, data) for an Active result, to the check of
\* ui.py:378-379.
UpdateFrame_ShouldTrigger ==
    /\ pc = "idle"
    /\ signals # <<>>
    /\ Head(signals).status = "Active"
    /\ analysis_result' = Head(signals)
    /\ signals' = Tail(signals)
    /\ ShouldTriggerAlert
    /\ previous_check' = [positive |-> result'.value, reset |-> FALSE]
    /\ pc' = IF result'.value THEN "trigger_alert" ELSE "idle"
    /\ UNCHANGED <<in_flight, monitoring>>

\* ui.py:380: self.feedback_manager.trigger_alert(msgs).
UpdateFrame_TriggerAlert(current_time) ==
    /\ pc = "trigger_alert"
    /\ TriggerAlert(analysis_result.feedback_messages, current_time)
    /\ pc' = "reset"
    /\ UNCHANGED <<analysis_result, previous_check, in_flight, signals, monitoring>>

\* ui.py:381: self.posture_analyzer.reset_bad_posture_timer(); the handler
\* then updates the cards and returns.
UpdateFrame_Reset ==
    /\ pc = "reset"
    /\ ResetBadPostureTimer
    /\ previous_check' = [previous_check EXCEPT !.reset = TRUE]
    /\ pc' = "idle"
    /\ UNCHANGED <<analysis_result, in_flight, signals, monitoring>>

UiNext ==
    \/ Ui_StartMonitoring_StartThread
    \/ \E current_time \in HandlerReadings : Ui_StartMonitoring_ResetStats(current_time)
    \/ Ui_StopMonitoring
    \/ \E sample \in HandlerSamples, current_time \in HandlerReadings :
         VideoThread_Analyze_Begin(sample[1], current_time, sample[2], sample[3], sample[4])
    \/ VideoThread_Analyze_End
    \/ UpdateFrame_NotActive
    \/ UpdateFrame_ShouldTrigger
    \/ \E current_time \in {now} : UpdateFrame_TriggerAlert(current_time)
    \/ UpdateFrame_Reset

UiSpec == HandlerInit /\ [][UiNext]_vars

----------------------------------------------------------------------------
(* The UI application under sustained bad posture.  A session is started   *)
(* and not stopped; up to LivePrefix seconds into it the camera gives any  *)
(* sample, after that only a subject whose neck angle is 55 degrees.  The  *)
(* clock advances from one frame to the next, by seven or eight seconds    *)
(* at first and by eight seconds under the sustained bad posture, up to    *)
(* LiveSpan seconds.  The video thread keeps running its loop              *)
(* (ui.py:49-67) and the event loop of the UI thread keeps delivering the  *)
(* emitted results to update_frame: both are weakly fair.                  *)

LiveReadings ==
    {t \in (IF now < Epoch + LivePrefix THEN {now + 7, now + 8} ELSE {now + 8}) :
        t <= Epoch + LiveSpan}

LiveSamples(current_time) ==
    IF current_time <= Epoch + LivePrefix
    THEN HandlerSamples
    ELSE {<<KeyPoints(NeckJoints), Some(55), None, None>>}

\* The steps of the video thread.
LiveVideoThread ==
    \/ \E current_time \in LiveReadings : \E sample \in LiveSamples(current_time) :
         VideoThread_Analyze_Begin(sample[1], current_time, sample[2], sample[3], sample[4])
    \/ VideoThread_Analyze_End

\* The steps of the UI thread.
LiveUiThread ==
    \/ Ui_StartMonitoring_StartThread
    \/ \E current_time \in {now} : Ui_StartMonitoring_ResetStats(current_time)
    \/ UpdateFrame_NotActive
    \/ UpdateFrame_ShouldTrigger
    \/ \E current_time \in {now} : UpdateFrame_TriggerAlert(current_time)
    \/ UpdateFrame_Reset

LiveNext == LiveVideoThread \/ LiveUiThread

LiveSpec ==
    /\ HandlerInit
    /\ [][LiveNext]_vars
    /\ WF_vars(LiveVideoThread)
    /\ WF_vars(LiveUiThread)

----------------------------------------------------------------------------
(* One smoothing buffer on its own: _get_smoothed_angle applied to         *)
(* neck_buffer, and the clear() of reset_stats.                            *)

\* Raw angles pushed.
PushValues == {10, 20, 30, 40}

\* history: the present samples pushed since construction or the last clear.
pushed_so_far == IF "pushed" \in DOMAIN call THEN call.pushed ELSE <<>>

\* history: what the latest push returned (None before any push).
returned_last == IF "returned" \in DOMAIN call THEN call.returned ELSE None

\* One call _get_smoothed_angle(self.neck_buffer, new_value).
GetSmoothedAngle(new_value) ==
    /\ new_value # None => Len(pushed_so_far) < MaxPushes
    /\ neck_buffer' = buffer_after(neck_buffer, new_value)
    /\ call' = [op |-> "get_smoothed_angle",
                new_value |-> new_value,
                returned |-> get_smoothed_angle(neck_buffer, new_value),
                pushed |-> IF new_value # None
                           THEN Append(pushed_so_far, new_value[1])
                           ELSE pushed_so_far]
    /\ UNCHANGED <<feedback, thresholds, shoulder_buffer, spine_buffer, episode, accumulators,
                   last_update_time, self_buffer_size, now, result, active_elapsed,
                   pushed_since_reset, opened_since_reset>>

\* self.neck_buffer.clear() (analyzer.py:191).
Clear ==
    /\ neck_buffer' = <<>>
    /\ call' = [op |-> "clear", pushed |-> <<>>, returned |-> None]
    /\ UNCHANGED <<feedback, thresholds, shoulder_buffer, spine_buffer, episode, accumulators,
                   last_update_time, self_buffer_size, now, result, active_elapsed,
                   pushed_since_reset, opened_since_reset>>

SmoothNext ==
    \/ \E new_value \in {None} \cup {Some(v) : v \in PushValues} :
          GetSmoothedAngle(new_value) /\ UNCHANGED handlers
    \/ Clear /\ UNCHANGED handlers

SmoothSpec == Init /\ [][SmoothNext]_vars

----------------------------------------------------------------------------
(* Properties *)

\* The latest call was analyze_posture.
Analyzed == call.op = "analyze_posture"

\* The latest call was analyze_posture on a non-empty key point dict.
AnalyzedSubject == Analyzed /\ call.subject

\* The latest call was analyze_posture and it returned this status.
Returned(status) == Analyzed /\ result.status = status

\* The latest analyze_posture found every raw angle absent.
AllRawAbsent ==
    call.raw_neck = None /\ call.raw_shoulder = None /\ call.raw_spine = None

Range(seq) == {seq[i] : i \in 1..Len(seq)}

\* C1: the two accumulators add up to the sum of the inter-call intervals
\* (now - last_update_time) that ended at a call returning Active since the
\* last reset_stats, and a call that returns 'No Person Detected' or
\* 'Undetected' changes neither accumulator.
C1_ActiveIntervalsAccumulate ==
    /\ [](good_posture_seconds + bad_posture_seconds = active_elapsed)
    /\ [][(Analyzed' /\ result'.status # "Active") => UNCHANGED accumulators]_vars

\* A positive interval ended at a 'No Person Detected' call after an Active
\* interval had been counted.
C1_Witness ==
    /\ Returned("No Person Detected")
    /\ call.interval > 0
    /\ active_elapsed > 0
    /\ good_posture_seconds + bad_posture_seconds = active_elapsed

\* C2: bad_posture_duration is never negative, and over two consecutive
\* analyze_posture calls with is_bad_posture true before and after the
\* second one it does not decrease.
C2_DurationNonNegativeAndMonotone ==
    /\ [](bad_posture_duration >= 0)
    /\ [][(Analyzed /\ Analyzed' /\ is_bad_posture /\ is_bad_posture')
            => bad_posture_duration' >= bad_posture_duration]_vars

\* C3: a sample evaluated as bad while no episode is open opens one at now
\* with bad_posture_duration 0, in the state and in the result.
C3_EpisodeOpensAtZero ==
    [][(Returned("Active")' /\ ~result'.is_good_posture
            /\ bad_posture_start_time = None)
          => /\ bad_posture_start_time' = Some(now')
             /\ is_bad_posture'
             /\ bad_posture_duration' = 0
             /\ result'.bad_posture_duration = 0]_vars

\* C4 as claimed: every call on a non-empty key point dict with the three
\* raw angles absent returns 'Undetected' and leaves both accumulators.
C4_AllAbsentIsUndetected ==
    [][(AnalyzedSubject' /\ AllRawAbsent')
          => (result'.status = "Undetected" /\ UNCHANGED accumulators)]_vars

\* C4 as amended: such a call returns 'Undetected' and leaves both
\* accumulators when the three smoothing buffers are empty; when a buffer
\* holds a sample the call is evaluated on the buffered mean and is Active.
C4_AllAbsentUndetectedIffBuffersEmpty ==
    [][(AnalyzedSubject' /\ AllRawAbsent')
          => IF neck_buffer = <<>> /\ shoulder_buffer = <<>> /\ spine_buffer = <<>>
             THEN result'.status = "Undetected" /\ UNCHANGED accumulators
             ELSE result'.status = "Active"]_vars

\* A sample with no usable joint ended a positive interval as 'Undetected'.
C4_Witness ==
    /\ AnalyzedSubject
    /\ AllRawAbsent
    /\ result.status = "Undetected"
    /\ call.interval > 0

\* The components whose raw angle the latest sample gave.
RawOf(component) ==
    CASE component = "neck" -> call.raw_neck
      [] component = "shoulders" -> call.raw_shoulder
      [] component = "spine" -> call.raw_spine

VerdictOf(component) ==
    CASE component = "neck" -> call.neck
      [] component = "shoulders" -> call.shoulders
      [] component = "spine" -> call.spine

BufferOf(component) ==
    CASE component = "neck" -> neck_buffer
      [] component = "shoulders" -> shoulder_buffer
      [] component = "spine" -> spine_buffer

ComponentSet == {Components[i] : i \in 1..3}

\* C5 as claimed: a component whose raw angle is absent in a sample casts
\* no vote and adds no defect message in that sample.
C5_AbsentRawAbstains ==
    AnalyzedSubject =>
        /\ Len(call.results) = Cardinality({c \in ComponentSet : RawOf(c) # None})
        /\ \A c \in ComponentSet :
             RawOf(c) = None => fail_message_of(c) \notin Range(result.feedback_messages)

\* C5 as amended: a component whose raw angle is absent abstains when its
\* smoothing buffer is empty; the votes cast are those of the components
\* whose buffer holds a sample, raw angle present or not.
C5_AbsentRawAbstainsIffBufferEmpty ==
    AnalyzedSubject =>
        /\ Len(call.results) = Cardinality({c \in ComponentSet : BufferOf(c) # <<>>})
        /\ \A c \in ComponentSet :
             (RawOf(c) = None /\ BufferOf(c) = <<>>)
                => /\ ~VerdictOf(c).valid
                   /\ fail_message_of(c) \notin Range(result.feedback_messages)
        /\ \A c \in ComponentSet :
             (RawOf(c) = None /\ BufferOf(c) # <<>>) => VerdictOf(c).valid

\* The neck voted alone: shoulders and spine, never seen, abstained.
C5_Witness ==
    /\ Returned("Active")
    /\ call.raw_neck # None
    /\ call.raw_shoulder = None /\ shoulder_buffer = <<>>
    /\ call.raw_spine = None /\ spine_buffer = <<>>
    /\ Len(call.results) = 1

\* C6 as claimed: a good sample that finds an episode open leaves
\* bad_posture_duration at 0.
C6_GoodClosesToZero ==
    [][(Returned("Active")' /\ result'.is_good_posture /\ Truthy(bad_posture_start_time))
          => bad_posture_duration' = 0]_vars

\* C6 as amended: a good sample that finds an episode open leaves
\* bad_posture_duration at the length of that episode, now minus its start.
C6_GoodClosesToEpisodeLength ==
    [][(Returned("Active")' /\ result'.is_good_posture /\ Truthy(bad_posture_start_time))
          => /\ bad_posture_duration' = now' - bad_posture_start_time[1]
             /\ result'.bad_posture_duration = bad_posture_duration']_vars

\* A good sample has just closed an episode that lasted some time.
C6_Witness ==
    /\ Returned("Active")
    /\ result.is_good_posture
    /\ call.episode_open
    /\ bad_posture_duration > 0

\* C7: the good sample that closes an episode sets bad_posture_duration to
\* the episode's length (not zero once time has passed) and clears
\* bad_posture_start_time and is_bad_posture; a good sample that finds no
\* episode open, and a sample that is not Active, leave bad_posture_duration
\* as it was.
C7_ClosedEpisodeFrozen ==
    [][/\ (Returned("Active")' /\ result'.is_good_posture)
            => /\ bad_posture_start_time' = None
               /\ ~is_bad_posture'
               /\ IF Truthy(bad_posture_start_time)
                  THEN /\ bad_posture_duration' = now' - bad_posture_start_time[1]
                       /\ now' > bad_posture_start_time[1] => bad_posture_duration' > 0
                  ELSE bad_posture_duration' = bad_posture_duration
       /\ (Analyzed' /\ result'.status # "Active")
            => bad_posture_duration' = bad_posture_duration]_vars

\* A good sample that found no episode open kept the non-zero duration of
\* an episode closed before it.
C7_Witness ==
    /\ Returned("Active")
    /\ result.is_good_posture
    /\ ~call.episode_open
    /\ bad_posture_duration > 0
    /\ bad_posture_start_time = None
    /\ ~is_bad_posture

\* C8: a call with no key points returns 'No Person Detected', moves
\* last_update_time to now, and leaves the accumulators, the episode fields
\* and the three buffers.
C8_NoPersonFrame ==
    [][(Analyzed' /\ ~call'.subject)
          => /\ result' = no_person_result
             /\ last_update_time' = now'
             /\ last_update_time' = last_update_time + call'.interval
             /\ UNCHANGED <<accumulators, episode, buffers>>]_vars

\* No subject, some time after a sample that left an episode open and the
\* buffers filled.
C8_Witness ==
    /\ Returned("No Person Detected")
    /\ call.interval > 0
    /\ is_bad_posture
    /\ bad_posture_seconds > 0
    /\ neck_buffer # <<>>

\* The smoothed angle the latest Active result carries for a component.
AngleOf(component) ==
    CASE component = "neck" -> result.neck_angle
      [] component = "shoulders" -> result.shoulder_alignment
      [] component = "spine" -> result.spine_curvature

\* The pass conditions of the three components on the fraction a = <<sum, len>>.
Passes(component, a) ==
    CASE component = "neck" -> a[1] > (90 - neck_angle_threshold) * a[2]
      [] component = "shoulders" ->
            /\ 180 * a[2] - a[1] < shoulder_alignment_threshold * a[2]
            /\ a[1] - 180 * a[2] < shoulder_alignment_threshold * a[2]
      [] component = "spine" -> a[1] > (180 - spine_curvature_threshold) * a[2]

\* C9: in an Active result is_good_posture is true exactly when every
\* component with a smoothed angle passes.
C9_GoodIffAllPass ==
    Returned("Active") =>
        (result.is_good_posture <=>
            \A c \in ComponentSet : AngleOf(c) # None => Passes(c, AngleOf(c)))

\* Three components voted, the neck alone failed, and the posture is bad.
C9_Witness ==
    /\ Returned("Active")
    /\ Len(call.results) = 3
    /\ ~Passes("neck", result.neck_angle)
    /\ Passes("shoulders", result.shoulder_alignment)
    /\ Passes("spine", result.spine_curvature)
    /\ ~result.is_good_posture

\* C10: a present angle passes for the neck iff a > 90 - t, for the
\* shoulders iff |180 - a| < t, for the spine iff a > 180 - t, strictly; a
\* failing component carries its fixed message and a passing one none.
C10_ComponentPredicates ==
    (call.op = "evaluate_component" /\ call.angle # None) =>
        LET a == call.angle[1]
            v == call.verdict
            passes ==
                CASE call.component = "neck" -> a > 90 - neck_angle_threshold
                  [] call.component = "shoulders" ->
                        (IF 180 - a < 0 THEN a - 180 ELSE 180 - a)
                            < shoulder_alignment_threshold
                  [] call.component = "spine" -> a > 180 - spine_curvature_threshold
            message ==
                CASE call.component = "neck" -> "Keep head straight"
                  [] call.component = "shoulders" -> "Level your shoulders"
                  [] call.component = "spine" -> "Straighten your back"
        IN  /\ v.valid
            /\ v.passing = Some(passes)
            /\ v.message = IF passes THEN None ELSE Some(message)

\* Neck threshold 30, angle exactly 60: on the boundary, failing with the
\* neck's message.
C10_Witness ==
    /\ call.op = "evaluate_component"
    /\ call.component = "neck"
    /\ neck_angle_threshold = 30
    /\ call.angle = <<60, 1>>
    /\ call.verdict.passing = Some(FALSE)
    /\ call.verdict.message = Some("Keep head straight")

\* The defect messages of the components, taken in the order of cs, whose
\* smoothed angle in the latest Active result is present and fails.
RECURSIVE DefectMessages(_)
DefectMessages(cs) ==
    IF cs = <<>>
    THEN <<>>
    ELSE LET c == Head(cs)
         IN  (IF AngleOf(c) # None /\ ~Passes(c, AngleOf(c))
              THEN <<fail_message_of(c)>>
              ELSE <<>>) \o DefectMessages(Tail(cs))

\* C11: in an Active result feedback_messages is the list of the defect
\* messages of the failing components, each once, in the order neck,
\* shoulders, spine; it is empty exactly when is_good_posture is true.
C11_MessagesOfFailingComponents ==
    Returned("Active") =>
        /\ result.feedback_messages = DefectMessages(<<"neck", "shoulders", "spine">>)
        /\ \A i, j \in 1..Len(result.feedback_messages) :
              result.feedback_messages[i] = result.feedback_messages[j] => i = j
        /\ (result.feedback_messages = <<>>) <=> result.is_good_posture

\* The three components failed and the result lists their three messages.
C11_Witness ==
    /\ Returned("Active")
    /\ ~result.is_good_posture
    /\ result.feedback_messages =
           <<"Keep head straight", "Level your shoulders", "Straighten your back">>

\* The last n entries of a sequence.
Last(seq, n) == SubSeq(seq, Len(seq) - n + 1, Len(seq))

\* The sum of the entries of a sequence, taken by index.
RECURSIVE Total(_, _)
Total(seq, n) == IF n = 0 THEN 0 ELSE seq[n] + Total(seq, n - 1)

\* C12: a push of a present sample returns the arithmetic mean of the most
\* recent min(k, buffer_size) present samples pushed since the last clear,
\* k being their number; the buffer holds exactly those samples, oldest
\* first, and never more than buffer_size of them.
C12_MeanOfMostRecent ==
    /\ Len(neck_buffer) <= buffer_size
    /\ (call.op = "get_smoothed_angle" /\ call.new_value # None) =>
          LET k == Len(call.pushed)
              n == IF k < buffer_size THEN k ELSE buffer_size
              recent == Last(call.pushed, n)
          IN  /\ neck_buffer = recent
              /\ call.returned = <<Total(recent, n), n>>
    \* capacity 3 fed 10, 20, 30, 40 yields 10, 15, 20, 30
    /\ (buffer_size = 3 /\ call.op = "get_smoothed_angle" /\ call.new_value # None) =>
          /\ call.pushed = <<10>> => call.returned = <<10, 1>>
          /\ call.pushed = <<10, 20>> => call.returned = <<30, 2>>
          /\ call.pushed = <<10, 20, 30>> => call.returned = <<60, 3>>
          /\ call.pushed = <<10, 20, 30, 40>> => call.returned = <<90, 3>>

\* A fourth sample pushed into a buffer that was full: 10, 20, 30, 40 with
\* the 40 returning the mean of the latest buffer_size samples only.
C12_Witness ==
    /\ call.op = "get_smoothed_angle"
    /\ call.new_value = Some(40)
    /\ call.pushed = <<10, 20, 30, 40>>
    /\ Len(call.pushed) > buffer_size
    /\ Len(neck_buffer) = buffer_size
    /\ neck_buffer = Last(<<10, 20, 30, 40>>, buffer_size)
    /\ call.returned = <<Total(neck_buffer, buffer_size), buffer_size>>

\* C13: a push of an absent sample leaves the buffer as it was and returns
\* what the previous push returned, absent when the buffer is empty.
C13_AbsentPushChangesNothing ==
    [][(call'.op = "get_smoothed_angle" /\ call'.new_value = None)
          => /\ neck_buffer' = neck_buffer
             /\ call'.returned = IF neck_buffer = <<>> THEN None ELSE returned_last]_vars

\* An absent sample pushed into a full buffer returned the mean again.
C13_Witness ==
    /\ call.op = "get_smoothed_angle"
    /\ call.new_value = None
    /\ Len(neck_buffer) = buffer_size
    /\ call.returned # None
    /\ call.returned = <<Total(neck_buffer, buffer_size), buffer_size>>

\* The smoothed angle the latest analyze_posture computed for a component.
SmoothedOf(component) ==
    CASE component = "neck" -> call.neck_angle
      [] component = "shoulders" -> call.shoulder_alignment
      [] component = "spine" -> call.spine_curvature

\* C14: for each of the three angles, the smoothed angle analyze_posture
\* computes is present exactly when some present raw sample of that angle
\* has been pushed since construction or the last reset_stats.
C14_SmoothedPresentIffPushed ==
    AnalyzedSubject =>
        \A c \in ComponentSet : (SmoothedOf(c) # None) <=> (c \in pushed_since_reset)

\* A sample without any joint of the neck angle still has a smoothed neck
\* angle, from a sample before it; the spine, never seen, has none.
C14_Witness ==
    /\ AnalyzedSubject
    /\ call.raw_neck = None
    /\ "neck" \in pushed_since_reset
    /\ call.neck_angle # None
    /\ "spine" \notin pushed_since_reset
    /\ call.spine_curvature = None

\* C15: reset_stats zeroes good_posture_seconds, bad_posture_seconds and
\* bad_posture_duration, clears the episode, empties the three buffers and
\* sets last_update_time to now; the sample right after it has each
\* smoothed angle equal to its raw angle.
C15_ResetStatsClearsAll ==
    [][/\ (call'.op = "reset_stats")
            => /\ good_posture_seconds' = 0
               /\ bad_posture_seconds' = 0
               /\ bad_posture_duration' = 0
               /\ bad_posture_start_time' = None
               /\ ~is_bad_posture'
               /\ neck_buffer' = <<>> /\ shoulder_buffer' = <<>> /\ spine_buffer' = <<>>
               /\ last_update_time' = now'
       /\ (call.op = "reset_stats" /\ AnalyzedSubject')
            => \A c \in ComponentSet :
                 SmoothedOf(c)' = IF RawOf(c)' = None THEN None ELSE <<RawOf(c)'[1], 1>>]_vars

\* reset_stats has just been called with an episode open, time counted and
\* samples in the three buffers.
C15_Witness ==
    /\ call.op = "reset_stats"
    /\ call.before.episode_open
    /\ call.before.counted
    /\ call.before.buffered = {"neck", "shoulders", "spine"}
    /\ neck_buffer = <<>> /\ shoulder_buffer = <<>> /\ spine_buffer = <<>>
    /\ good_posture_seconds = 0 /\ bad_posture_seconds = 0

\* C16: reset_bad_posture_timer sets bad_posture_duration to 0,
\* bad_posture_start_time to None and is_bad_posture to False, and leaves
\* the two accumulators, last_update_time and the three buffers.
C16_ResetTimerFrame ==
    [][(call'.op = "reset_bad_posture_timer")
          => /\ bad_posture_duration' = 0
             /\ bad_posture_start_time' = None
             /\ ~is_bad_posture'
             /\ UNCHANGED <<accumulators, last_update_time, buffers>>]_vars

\* reset_bad_posture_timer has just been called on an open episode with a
\* duration, bad time counted and samples buffered.
C16_Witness ==
    /\ call.op = "reset_bad_posture_timer"
    /\ call.before.episode_open
    /\ call.before.duration > 0
    /\ bad_posture_duration = 0
    /\ bad_posture_seconds > 0
    /\ neck_buffer # <<>>

\* C17: should_trigger_alert returns true exactly when bad_posture_duration
\* is at least the alert threshold of 15 seconds, false for every smaller
\* duration, and changes no field of the analyzer.
C17_TriggerIffDurationAtLeastThreshold ==
    [][(call'.op = "should_trigger_alert")
          => /\ result'.value = (bad_posture_duration >= 15)
             /\ bad_posture_duration < 15 => ~result'.value
             /\ UNCHANGED <<thresholds, buffers, episode, accumulators,
                            last_update_time, self_buffer_size>>]_vars

\* should_trigger_alert returned true for a duration of exactly 15 seconds.
C17_Witness ==
    /\ call.op = "should_trigger_alert"
    /\ bad_posture_duration = 15
    /\ result.value

\* C19: any two alerts for which an alert thread was started are at least
\* alert_repeat_interval (60) seconds apart, and a trigger_alert call made
\* sooner than that after the last started alert starts none and leaves
\* last_alert_time as it was.
C19_AlertsAtLeastIntervalApart ==
    /\ [](\A i, j \in 1..Len(delivered) :
             i < j => delivered[j] - delivered[i] >= 60)
    /\ [][(call'.op = "trigger_alert" /\ delivered # <<>>
             /\ now' - delivered[Len(delivered)] < 60)
            => UNCHANGED <<last_alert_time, delivered>>]_vars

\* Two alerts started exactly 60 seconds apart, and a call 29 seconds after
\* the second one started none.
C19_Witness ==
    /\ call.op = "trigger_alert"
    /\ ~call.started
    /\ Len(delivered) = 2
    /\ delivered[2] - delivered[1] = 60
    /\ now - delivered[2] = 29
    /\ last_alert_time = delivered[2]

\* C20: once self.buffer_size has been changed, each smoothed angle of the
\* next and the later samples is the mean of at most that many of the most
\* recent samples.
C20_CapacityChangeTakesEffect ==
    AnalyzedSubject =>
        \A c \in ComponentSet :
            SmoothedOf(c) # None =>
                /\ SmoothedOf(c)[2] <= self_buffer_size
                /\ Len(BufferOf(c)) <= self_buffer_size

\* C18: in the per-sample handler every positive should_trigger_alert check
\* has been followed by reset_bad_posture_timer when the handler returns,
\* and the check made for the next processed sample after a positive one
\* is negative.
C18_NoRetriggerOnNextSample ==
    /\ []((pc = "idle" /\ previous_check # None /\ previous_check.positive)
            => previous_check.reset)
    /\ [][(call'.op = "should_trigger_alert"
             /\ previous_check # None /\ previous_check.positive)
            => ~result'.value]_vars

\* C21: the analyze_posture call that follows a change of the three
\* thresholds evaluates every component with the new thresholds, and the
\* change itself leaves the accumulators, the episode and the buffers.
C21_NextCallUsesNewThresholds ==
    /\ [](AnalyzedSubject =>
            \A c \in ComponentSet :
                SmoothedOf(c) # None =>
                    VerdictOf(c).passing = Some(Passes(c, SmoothedOf(c))))
    /\ [][(call'.op = "change_user")
            => UNCHANGED <<accumulators, episode, buffers, last_update_time>>]_vars

\* The first sample after the shoulder threshold went from 10 to 15: a
\* shoulder angle of 170, failing until then, passes; the buffers, the
\* open episode and the bad time counted are still there.
C21_Witness ==
    /\ AnalyzedSubject
    /\ call.after_change
    /\ shoulder_alignment_threshold = 15
    /\ shoulder_buffer = <<170, 170>>
    /\ call.shoulders.passing = Some(TRUE)
    /\ bad_posture_start_time # None
    /\ bad_posture_seconds > 0

\* C22: in the UI application the calls on one analyzer are serialized:
\* while an analyze_posture call of the video thread is in flight, no step
\* is a should_trigger_alert, reset_bad_posture_timer or reset_stats call
\* on that analyzer.
C22_AnalyzerCallsSerialized ==
    [][(in_flight # None)
          => call'.op \notin {"should_trigger_alert", "reset_bad_posture_timer",
                              "reset_stats"}]_vars

\* C23: the posture state is zero at both ends of a monitoring session: the
\* step in which start_monitoring returns and the step in which
\* stop_monitoring returns leave good_posture_seconds, bad_posture_seconds
\* and bad_posture_duration at 0 and no episode open.
C23_ZeroAtBothEndsOfSession ==
    [][(monitoring' # monitoring)
          => /\ good_posture_seconds' = 0
             /\ bad_posture_seconds' = 0
             /\ bad_posture_duration' = 0
             /\ bad_posture_start_time' = None
             /\ ~is_bad_posture']_vars

\* C24: a should_trigger_alert, trigger_alert or reset_bad_posture_timer
\* call is made only while the handler handles a sample whose status is
\* Active; handling a 'No Person Detected' or 'Undetected' sample makes none
\* of them, and an alert is delivered only from an Active sample.
C24_NoAlertFromNonActiveSample ==
    /\ [][(call'.op \in {"should_trigger_alert", "trigger_alert",
                         "reset_bad_posture_timer"} \/ delivered' # delivered)
             => (analysis_result' # None /\ analysis_result'.status = "Active")]_vars
    /\ []((pc \in {"trigger_alert", "reset"}) => analysis_result.status = "Active")

\* A 'No Person Detected' sample has been handled fifteen seconds into an
\* open episode, and no alert was delivered.
C24_Witness ==
    /\ call.op = "update_frame"
    /\ analysis_result.status = "No Person Detected"
    /\ Truthy(bad_posture_start_time)
    /\ now - bad_posture_start_time[1] >= BAD_POSTURE_THRESHOLD_SECONDS
    /\ delivered = <<>>

\* C25: every result of analyze_posture carries bad_posture_duration, and
\* process_frame never enters its except clause: each sample it handles
\* reaches the emit of frame and status.
C25_EveryResultHandledAsOrdinary ==
    /\ (call.op = "analyze_posture" => "bad_posture_duration" \in DOMAIN result)
    /\ pc # "except"
    /\ call.op # "process_frame_except"

\* C26: under sustained bad posture, with samples arriving, the clock
\* advancing and the handler run on each sample, should_trigger_alert is
\* eventually true, an alert is eventually delivered, and each alert
\* delivered at least RecurWithin seconds before the end of the time
\* explored is followed by another one.
C26_AlertDeliveredAndRecurs ==
    /\ <>(previous_check # None /\ previous_check.positive)
    /\ <>(delivered # <<>>)
    /\ \A k \in 1..3 :
          (Len(delivered) = k /\ delivered[k] + RecurWithin <= Epoch + LiveSpan)
              ~> (Len(delivered) > k)

\* An alert has been delivered a second time, the repeat interval after the
\* first, with a rate-limited trigger and its reset in between.
C26_Witness ==
    /\ Len(delivered) >= 2
    /\ call.op = "trigger_alert" /\ call.started
    /\ call.since_last >= ALERT_REPEAT_INTERVAL_SECONDS
    /\ delivered[2] - delivered[1] > 2 * BAD_POSTURE_THRESHOLD_SECONDS
    /\ in_flight # None

\* C27: whenever the handler finds should_trigger_alert true after an
\* analyze_posture call that returned status Active, the result of that
\* call has is_good_posture false and a non-empty feedback_messages.
C27_AlertOnlyWhilePostureBad ==
    (call.op = "should_trigger_alert" /\ result.value)
        => /\ ~analysis_result.is_good_posture
           /\ analysis_result.feedback_messages # <<>>

\* C28: in every state reached by analyze_posture, reset_bad_posture_timer
\* and reset_stats the episode timer is at most the time attributed to bad
\* posture: bad_posture_duration <= bad_posture_seconds.
C28_DurationAtMostBadSeconds ==
    bad_posture_duration <= bad_posture_seconds

\* C29: with analyze_posture, reset_bad_posture_timer and reset_stats each
\* executed atomically, is_bad_posture is true exactly when
\* bad_posture_start_time is present, and bad_posture_duration is 0 as long
\* as no episode has been opened since the last reset.
C29_FlagIffEpisodeOpen ==
    /\ is_bad_posture <=> (bad_posture_start_time # None)
    /\ ~opened_since_reset => bad_posture_duration = 0

\* A good sample has been analysed after a reset that followed time
\* attributed to bad posture: no episode was opened since, the flag is off
\* and the duration is 0.
C29_Witness ==
    /\ AnalyzedSubject
    /\ result.status = "Active"
    /\ ~opened_since_reset
    /\ ~is_bad_posture /\ bad_posture_start_time = None
    /\ bad_posture_duration = 0
    /\ bad_posture_seconds > 0

\* C30: every posture event process_frame logs is for a sample with status
\* Active, and the is_good_posture stored in the row is the is_good_posture
\* of that sample's result.
C30_LoggedRowMatchesSample ==
    (call.op = "process_frame_emit" /\ call.logged # None)
        => /\ analysis_result.status = "Active"
           /\ call.logged[1].is_good_posture = analysis_result.is_good_posture

============================================================================
